---- MODULE Spec2Model ----
(***************************************************************************)
(* A model of stardust/serializer.py: the class registry, the recursive    *)
(* Serializable.serialize / Serializable.deserialize walk, and the         *)
(* manifest driven Packable.pack / Packable.unpack protocol.               *)
(***************************************************************************)
EXTENDS Integers, Sequences, FiniteSets, TLC

VARIABLES
  registry,    \* SERIALIZABLE_CLASS_REGISTRY
  src,         \* the value handed to the last serialize
  node,        \* the serialized node in hand
  regChanged,  \* the registry was written since node was made
  last,        \* what the last codec operation did
  psrc,        \* the Packable handed to the last pack
  wire,        \* the packed data in hand
  before,      \* the target of the last unpack, before it
  after,       \* the target of the last unpack, after it
  plast,       \* what the last pack or unpack did
  classes,     \* the subclasses of Serializable defined so far
  dlast,       \* what the last class definition did
  pc,          \* where each registering thread is in _register_json_class
  prev,        \* each registering thread's local variable prev
  obs,         \* what the lookups of the reading thread returned, in order
  doc          \* the file envelope in hand

cvars == <<registry, src, node, regChanged, last>>
pvars == <<psrc, wire, before, after, plast>>
dvars == <<classes, dlast>>
rvars == <<pc, prev, obs>>
xvars == <<dvars, rvars, doc>>
vars == <<cvars, pvars, xvars>>

\* Largest schema version a registration is given.
MaxVersion == 2
\* Longest list, tuple, set or mapping drawn as an input.
MaxLen == 2
\* Most keys left out of the data handed to unpack.
MaxMissing == 2
\* Threads that register a class at the same time.
MaxThreads == 2
\* Lookups the reading thread makes.
MaxObs == 3

(***************************************************************************)
(* Python values.  Every value is a record whose field k names its kind;   *)
(* each kind has its own field names.                                      *)
(***************************************************************************)
PyNone == [k |-> "none"]
PyInt(n) == [k |-> "int", i |-> n]
PyStr(s) == [k |-> "str", s |-> s]
PyBool(b) == [k |-> "bool", b |-> b]
PyList(q) == [k |-> "list", items |-> q]
PyTuple(q) == [k |-> "tuple", items |-> q]
PySet(S) == [k |-> "set", elems |-> S]
PyDict(f) == [k |-> "dict", m |-> f]
\* An instance of a user class: its class and its attribute dictionary.
PyObj(c, f) == [k |-> "obj", cls |-> c, attrs |-> f]
\* datetime: wall clock reading (in hours), tzinfo present or not, utc offset.
DateTime(w, a, o) == [k |-> "datetime", wall |-> w, aware |-> a, off |-> o]
\* The str an isoformat() call returns: the wall clock reading and the suffix.
IsoStr(w, x) == [k |-> "isostr", wall |-> w, suffix |-> x]
\* numpy.ndarray: shape, dtype and the elements in row-major order.
NdArray(sh, dt, fl) == [k |-> "ndarray", shape |-> sh, dtype |-> dt, flat |-> fl]
\* numpy.generic: a boxed scalar.
NpScalar(dt, n) == [k |-> "npscalar", dtype |-> dt, item |-> n]
\* An operation that raised instead of returning.
Raise(e) == [k |-> "raise", exc |-> e]

IsRaise(v) == v.k = "raise"
EmptyMap == [x \in {} |-> PyNone]

\* bool(v) as Python's `if v:` and `a and b` read it.
Truthy(v) ==
  CASE v.k = "none" -> FALSE
    [] v.k = "bool" -> v.b
    [] v.k = "int" -> v.i # 0
    [] v.k = "str" -> v.s # ""
    [] v.k \in {"list", "tuple"} -> v.items # <<>>
    [] v.k = "set" -> v.elems # {}
    [] v.k = "dict" -> DOMAIN v.m # {}
    [] OTHER -> TRUE

\* Whether hash(v) succeeds (set members and dict lookups need it).
RECURSIVE Hashable(_)
Hashable(v) ==
  CASE v.k \in {"list", "set", "dict", "ndarray"} -> FALSE
    [] v.k = "tuple" -> \A j \in 1..Len(v.items) : Hashable(v.items[j])
    [] OTHER -> TRUE

\* The elements of a finite set in some fixed order (iteration order).
RECURSIVE SetToSeq(_)
SetToSeq(S) ==
  IF S = {} THEN <<>>
  ELSE LET x == CHOOSE y \in S : TRUE IN <<x>> \o SetToSeq(S \ {x})

\* The set of the elements of a sequence.
Range(q) == {q[j] : j \in 1..Len(q)}

(***************************************************************************)
(* Classes.  A class has an identity, a __name__ and its effective         *)
(* __state_fields__; two distinct classes may carry the same __name__.     *)
(***************************************************************************)
Classes == {"A", "A2", "B"}
ClassName(c) == IF c = "A2" THEN "A" ELSE c
StateFields(c) ==
  CASE c = "A" -> <<"a", "b">>
    [] c = "A2" -> <<"a", "b", "c">>
    [] c = "B" -> <<"x">>
\* Classes that define __post_deserialize__.
HasPostHook(c) == c = "B"

\* type(obj).__name__
TypeName(v) == IF v.k = "obj" THEN ClassName(v.cls) ELSE v.k

(***************************************************************************)
(* The class registry: SERIALIZABLE_CLASS_REGISTRY maps a class __name__   *)
(* to a ClassRegistryInfo.                                                 *)
(***************************************************************************)
\* A ClassRegistryInfo.  to is always Serializable.get_state_dict, the same
\* function for every class; from_ is the classmethod from_state_dict bound
\* to a class, named here by that class; upgrade is "None" or the name of
\* an upgrade function.
ClassRegistryInfo(c, t, f, v, u) ==
  [cls |-> c, to |-> t, from_ |-> f, version |-> v, upgrade |-> u]

\* The upgrade function a class definition supplies: classes A and A2 may
\* supply add_c, which sets the field c (new in version 2) to its default.
UpgradeChoices(c) == IF c = "B" THEN {"None"} ELSE {"None", "add_c"}
DefaultC == PyInt(0)

\* add_c(data, from_version, to_version):
\*     if from_version < 2: data["c"] = 0
\*     return data
UpgradeAddC(payload, from_version, to_version) ==
  IF from_version >= 2 THEN payload
  ELSE IF payload.k # "dict" THEN Raise("TypeError")
  ELSE PyDict([f \in DOMAIN payload.m \cup {"c"} |->
                 IF f = "c" THEN DefaultC ELSE payload.m[f]])

\* Serializable.get_state_dict
GetStateDict(obj) ==
  LET fields == Range(StateFields(obj.cls)) IN
  IF fields \subseteq DOMAIN obj.attrs
    THEN PyDict([f \in fields |-> obj.attrs[f]])
    ELSE Raise("AttributeError")

\* The events a decode makes visible, in the order they happen: a warning
\* printed, an upgrade function called, a from_ function called, a
\* __post_deserialize__ hook called.  arg is the payload handed over.
Event(e, t, fv, tv, arg) == [e |-> e, t |-> t, fv |-> fv, tv |-> tv, arg |-> arg]

\* The attributes __init__ of class c sets on a new instance: its state
\* fields and a cache that is no state field.
InitAttrs(c) == [f \in Range(StateFields(c)) \cup {"cache"} |-> PyNone]

\* obj = cls.__new__(cls): an instance with no attribute set.
NewInstance(c) == PyObj(c, EmptyMap)

\* for k, v in data.items(): setattr(obj, k, v)
RECURSIVE SetAttrs(_, _, _)
SetAttrs(obj, data, keys) ==
  IF keys = <<>> THEN obj
  ELSE LET key == Head(keys) IN
       SetAttrs(PyObj(obj.cls, [f \in DOMAIN obj.attrs \cup {key} |->
                                 IF f = key THEN data[key] ELSE obj.attrs[f]]),
                data, Tail(keys))

\* from_state_dict that builds the instance with cls() and calls the hook
\* before it assigns the entries.
FromStateDict_CallsInit(c, data) ==
  IF data.k # "dict" THEN [val |-> Raise("AttributeError"), log |-> <<>>]
  ELSE LET obj == PyObj(c, InitAttrs(c)) IN
       [val |-> SetAttrs(obj, data.m, SetToSeq(DOMAIN data.m)),
        log |-> IF HasPostHook(c)
                  THEN <<Event("post", ClassName(c), 0, 0, PyDict(obj.attrs))>>
                  ELSE <<>>]

\* Serializable.from_state_dict, as the classmethod bound to class c.  The
\* hook is called as post(), without arguments; the event keeps, as arg,
\* the attributes the instance has when the hook is called.
FromStateDict(c, data) ==
  IF data.k # "dict" THEN [val |-> Raise("AttributeError"), log |-> <<>>]
  ELSE LET obj == SetAttrs(NewInstance(c), data.m, SetToSeq(DOMAIN data.m)) IN
       [val |-> obj,
        log |-> IF HasPostHook(c)
                  THEN <<Event("post", ClassName(c), 0, 0, PyDict(obj.attrs))>>
                  ELSE <<>>]

\* Product of the entries of a shape.
RECURSIVE Prod(_)
Prod(sh) == IF sh = <<>> THEN 1 ELSE Head(sh) * Prod(Tail(sh))

\* ndarray.tolist(): nested lists following the shape.
RECURSIVE ToList(_, _)
ToList(sh, fl) ==
  IF sh = <<>> THEN PyInt(fl[1])
  ELSE LET stride == Prod(Tail(sh)) IN
       PyList([j \in 1..Head(sh) |->
                 ToList(Tail(sh), SubSeq(fl, (j - 1) * stride + 1, j * stride))])

\* The elements np.array(data) reads out of nested lists, row-major.
RECURSIVE Flatten(_)
Flatten(v) ==
  IF v.k = "list"
    THEN IF v.items = <<>> THEN <<>>
         ELSE Flatten(Head(v.items)) \o Flatten(PyList(Tail(v.items)))
    ELSE <<v.i>>

(***************************************************************************)
(* Serializable.serialize                                                  *)
(***************************************************************************)
\* _encode_datetime without the conversion to UTC: the local reading is
\* written with the suffix Z.
EncodeDatetime_NoConvert(dt) ==
  PyDict("__type__" :> PyStr("__datetime__")
         @@ "data" :> IsoStr(dt.wall, IF dt.aware THEN "Z" ELSE "")
         @@ "naive" :> PyBool(~dt.aware))

\* serialize._encode_datetime
EncodeDatetime(dt) ==
  IF ~dt.aware
    THEN PyDict("__type__" :> PyStr("__datetime__")
                @@ "data" :> IsoStr(dt.wall, "")
                @@ "naive" :> PyBool(TRUE))
    ELSE \* astimezone(utc), isoformat() ending "+00:00", replaced by "Z"
         PyDict("__type__" :> PyStr("__datetime__")
                @@ "data" :> IsoStr(dt.wall - dt.off, "Z")
                @@ "naive" :> PyBool(FALSE))

\* serialize._encode_ndarray
EncodeNdarray(arr) ==
  PyDict("__type__" :> PyStr("__ndarray__")
         @@ "shape" :> PyList([j \in 1..Len(arr.shape) |-> PyInt(arr.shape[j])])
         @@ "dtype" :> PyStr(arr.dtype)
         @@ "data" :> ToList(arr.shape, arr.flat))

\* The registered-object node serialize returns for a registered class.
RegisteredNode(name, info, state_data) ==
  PyDict("__type__" :> PyStr(name)
         @@ "cls_serializer_version" :> PyInt(info.version)
         @@ "state_data" :> state_data)

RECURSIVE Serialize(_, _), SerializeItems(_, _)

\* [Serializable.serialize(v) for v in q]: the encoded items, or the first
\* exception raised.
SerializeItems(q, reg) ==
  IF q = <<>> THEN PyList(<<>>)
  ELSE LET h == Serialize(Head(q), reg) IN
       IF IsRaise(h) THEN h
       ELSE LET r == SerializeItems(Tail(q), reg) IN
            IF IsRaise(r) THEN r ELSE PyList(<<h>> \o r.items)

Serialize(obj, reg) ==
  IF TypeName(obj) \in DOMAIN reg
    THEN LET info == reg[TypeName(obj)]
             payload == GetStateDict(obj) IN
         IF IsRaise(payload) THEN payload
         ELSE LET inner == Serialize(payload, reg) IN
              IF IsRaise(inner) THEN inner
              ELSE RegisteredNode(TypeName(obj), info, inner)
  ELSE IF obj.k = "datetime" THEN EncodeDatetime(obj)
  ELSE IF obj.k = "npscalar" THEN PyInt(obj.item)
  ELSE IF obj.k = "ndarray" THEN EncodeNdarray(obj)
  ELSE IF obj.k = "dict"
    THEN LET ks == SetToSeq(DOMAIN obj.m)
             r == SerializeItems([j \in 1..Len(ks) |-> obj.m[ks[j]]], reg) IN
         IF IsRaise(r) THEN r
         ELSE PyDict([key \in DOMAIN obj.m |->
                        r.items[CHOOSE j \in 1..Len(ks) : ks[j] = key]])
  ELSE IF obj.k \in {"list", "tuple"} THEN SerializeItems(obj.items, reg)
  ELSE IF obj.k = "set"
    THEN LET r == SerializeItems(SetToSeq(obj.elems), reg) IN
         IF IsRaise(r) THEN r
         ELSE PyDict("__type__" :> PyStr("__set__") @@ "data" :> r)
  ELSE obj

(***************************************************************************)
(* Serializable.deserialize                                                *)
(***************************************************************************)
\* A decode's outcome: the value returned (or the exception raised) and the
\* events that happened on the way.
Result(v, l) == [val |-> v, log |-> l]

\* valid_serialized_object expecting the key "v" that deserialize reads
\* instead of "cls_serializer_version".
ValidSerializedObject_KeyV(d) ==
  \A x \in {"__type__", "v", "state_data"} : x \in DOMAIN d

\* valid_serialized_object
ValidSerializedObject(d) ==
  \A x \in {"__type__", "cls_serializer_version", "state_data"} : x \in DOMAIN d

\* d.get(key): the value, or None
DictGet(d, key) == IF key \in DOMAIN d THEN d[key] ELSE PyNone

\* int(x) for the values a node may carry under "v".
IntOf(x) ==
  CASE x.k = "int" -> x.i
    [] x.k = "bool" -> IF x.b THEN 1 ELSE 0
    [] OTHER -> -1

\* from_version = int(obj.get("v", 1))
FromVersion(d) == IF "v" \in DOMAIN d THEN IntOf(d["v"]) ELSE 1

\* int(obj.get("v", 1)) raises for what int() does not take.
FromVersionRaises(d) == "v" \in DOMAIN d /\ d["v"].k \notin {"int", "bool"}

\* _decode_datetime that keeps whatever tzinfo the string gave.
DecodeDatetime_KeepTz(d) ==
  IF "data" \notin DOMAIN d THEN Raise("KeyError")
  ELSE LET s == d["data"] IN
       IF s.k # "isostr" THEN Raise("AttributeError")
       ELSE CASE s.suffix = "" -> DateTime(s.wall, FALSE, 0)
              [] s.suffix \in {"Z", "+00:00"} -> DateTime(s.wall, TRUE, 0)
              [] s.suffix = "+01:00" -> DateTime(s.wall, TRUE, 1)
              [] OTHER -> Raise("ValueError")

\* deserialize._decode_datetime
DecodeDatetime(d) ==
  IF "data" \notin DOMAIN d THEN Raise("KeyError")
  ELSE LET s0 == d["data"] IN
       IF s0.k # "isostr" THEN Raise("AttributeError")
       ELSE LET s == IF s0.suffix = "Z" THEN IsoStr(s0.wall, "+00:00") ELSE s0
                \* datetime.fromisoformat(s)
                dt == CASE s.suffix = "" -> DateTime(s.wall, FALSE, 0)
                        [] s.suffix = "+00:00" -> DateTime(s.wall, TRUE, 0)
                        [] s.suffix = "+01:00" -> DateTime(s.wall, TRUE, 1)
                        [] OTHER -> Raise("ValueError") IN
            IF IsRaise(dt) THEN dt
            ELSE IF Truthy(DictGet(d, "naive"))
              THEN DateTime(dt.wall, FALSE, 0)
              ELSE dt

\* deserialize._decode_ndarray (numpy is imported: np is not None)
DecodeNdarray(d) ==
  IF ~({"data", "dtype", "shape"} \subseteq DOMAIN d) THEN Raise("KeyError")
  ELSE IF d["shape"].k # "list" \/ d["dtype"].k # "str" THEN Raise("TypeError")
  ELSE LET fl == Flatten(d["data"])
           sh == [j \in 1..Len(d["shape"].items) |-> d["shape"].items[j].i] IN
       IF Prod(sh) # Len(fl) THEN Raise("ValueError")
       ELSE NdArray(sh, d["dtype"].s, fl)

\* deserialize without the upgrade dispatch: the payload goes to from_ as
\* it was decoded.
ApplyUpgrade_NoCall(info, payload, from_version, to_version) ==
  Result(payload, <<>>)

\* The upgrade dispatch that refuses a version mismatch when the entry has
\* no upgrade function.
ApplyUpgrade_Strict(info, payload, from_version, to_version) ==
  IF from_version # to_version /\ info.upgrade # "None"
    THEN Result(UpgradeAddC(payload, from_version, to_version),
                <<Event("upgrade", ClassName(info.cls), from_version,
                        to_version, payload)>>)
  ELSE IF from_version # to_version THEN Result(Raise("ValueError"), <<>>)
  ELSE Result(payload, <<>>)

\* if from_version != to_version: if info.upgrade: payload = info.upgrade(...)
ApplyUpgrade(info, payload, from_version, to_version) ==
  IF from_version # to_version /\ info.upgrade # "None"
    THEN Result(UpgradeAddC(payload, from_version, to_version),
                <<Event("upgrade", ClassName(info.cls), from_version,
                        to_version, payload)>>)
    ELSE Result(payload, <<>>)

\* The reserved tags of the built-in tagged forms.
ReservedTags == {"__set__", "__datetime__", "__ndarray__"}

\* t and t in SERIALIZABLE_CLASS_REGISTRY
IsRegisteredTag(t, reg) == Truthy(t) /\ t.k = "str" /\ t.s \in DOMAIN reg

\* The lookup `t in SERIALIZABLE_CLASS_REGISTRY` hashes t.
TagLookupRaises(t) == Truthy(t) /\ ~Hashable(t)

\* The items `for v in obj["data"]` walks over.
IterItems(d) ==
  CASE d.k \in {"list", "tuple"} -> d.items
    [] d.k = "set" -> SetToSeq(d.elems)
    [] d.k = "dict" -> LET ks == SetToSeq(DOMAIN d.m) IN
                       [j \in 1..Len(ks) |-> PyStr(ks[j])]
    [] OTHER -> <<>>
Iterable(d) == d.k \in {"list", "tuple", "set", "dict"}

RECURSIVE Deserialize(_, _), DeserializeItems(_, _), DeserializeMembers(_, _)

\* [Serializable.deserialize(v) for v in q]: the decoded items as a list, or
\* the first exception raised, and the events up to there.
DeserializeItems(q, reg) ==
  IF q = <<>> THEN Result(PyList(<<>>), <<>>)
  ELSE LET h == Deserialize(Head(q), reg) IN
       IF IsRaise(h.val) THEN h
       ELSE LET r == DeserializeItems(Tail(q), reg) IN
            IF IsRaise(r.val) THEN Result(r.val, h.log \o r.log)
            ELSE Result(PyList(<<h.val>> \o r.val.items), h.log \o r.log)

\* set(Serializable.deserialize(v) for v in q): each member is decoded and
\* then hashed before the next one is decoded.
DeserializeMembers(q, reg) ==
  IF q = <<>> THEN Result(PySet({}), <<>>)
  ELSE LET h == Deserialize(Head(q), reg) IN
       IF IsRaise(h.val) THEN h
       ELSE IF ~Hashable(h.val) THEN Result(Raise("TypeError"), h.log)
       ELSE LET r == DeserializeMembers(Tail(q), reg) IN
            IF IsRaise(r.val) THEN Result(r.val, h.log \o r.log)
            ELSE Result(PySet({h.val} \cup r.val.elems), h.log \o r.log)

\* The registered-class branch that reconstructs the enclosing object from
\* state_data as it stands in the node, without decoding it first.
DeserializeRegistered_OuterFirst(d, info, reg) ==
  IF "state_data" \notin DOMAIN d THEN Result(Raise("KeyError"), <<>>)
  ELSE LET u == ApplyUpgrade(info, d["state_data"], FromVersion(d), info.version) IN
       IF IsRaise(u.val) THEN Result(u.val, u.log)
       ELSE LET f == FromStateDict(info.from_, u.val) IN
            Result(f.val,
                   u.log \o <<Event("from_", ClassName(info.cls), 0, 0, u.val)>>
                     \o f.log)

\* The registered-class branch of deserialize.
DeserializeRegistered(d, info, reg) ==
  IF "state_data" \notin DOMAIN d THEN Result(Raise("KeyError"), <<>>)
  ELSE LET p == Deserialize(d["state_data"], reg) IN
       IF IsRaise(p.val) THEN p
       ELSE IF FromVersionRaises(d) THEN Result(Raise("TypeError"), p.log)
       ELSE LET from_version == FromVersion(d)
                to_version == info.version
                u == ApplyUpgrade(info, p.val, from_version, to_version) IN
            IF IsRaise(u.val) THEN Result(u.val, p.log \o u.log)
            ELSE LET f == FromStateDict(info.from_, u.val) IN
                 Result(f.val,
                        p.log \o u.log
                          \o <<Event("from_", ClassName(info.cls), 0, 0, u.val)>>
                          \o f.log)

\* {k: Serializable.deserialize(v) for k, v in obj.items()}
DeserializeDict(d, reg) ==
  LET ks == SetToSeq(DOMAIN d)
      r == DeserializeItems([j \in 1..Len(ks) |-> d[ks[j]]], reg) IN
  IF IsRaise(r.val) THEN r
  ELSE Result(PyDict([key \in DOMAIN d |->
                        r.val.items[CHOOSE j \in 1..Len(ks) : ks[j] = key]]),
              r.log)

Deserialize(obj, reg) ==
  IF obj.k = "list" THEN DeserializeItems(obj.items, reg)
  ELSE IF obj.k = "dict"
    THEN LET d == obj.m
             t == DictGet(d, "__type__") IN
         IF t = PyStr("__set__")
           THEN IF "data" \notin DOMAIN d THEN Result(Raise("KeyError"), <<>>)
                ELSE IF ~Iterable(d["data"]) THEN Result(Raise("TypeError"), <<>>)
                ELSE DeserializeMembers(IterItems(d["data"]), reg)
         ELSE IF t = PyStr("__datetime__") THEN Result(DecodeDatetime(d), <<>>)
         ELSE IF t = PyStr("__ndarray__") THEN Result(DecodeNdarray(d), <<>>)
         ELSE IF TagLookupRaises(t) THEN Result(Raise("TypeError"), <<>>)
         ELSE IF IsRegisteredTag(t, reg)
           THEN DeserializeRegistered(d, reg[t.s], reg)
         ELSE IF ValidSerializedObject(d)
           THEN LET r == DeserializeDict(d, reg) IN
                Result(r.val, <<Event("warn", "", 0, 0, t)>> \o r.log)
         ELSE DeserializeDict(d, reg)
  ELSE Result(obj, <<>>)

(***************************************************************************)
(* The file envelope: to_serial_dict / from_serial_dict                    *)
(***************************************************************************)
\* SERIALIZER_FORMAT_VERSION
SerializerFormatVersion == 1

\* {"name": ..., "version": ...}
FormatDict(name, version) ==
  PyDict("name" :> PyStr(name) @@ "version" :> PyInt(version))

\* to_serial_dict
ToSerialDict(obj, reg) ==
  LET state == Serialize(obj, reg) IN
  IF IsRaise(state) THEN state
  ELSE PyDict("__serializer_format__" :>
                FormatDict("stardust.Serializable", SerializerFormatVersion)
              @@ "state" :> state)

\* from_serial_dict that refuses a document of another format version.
FromSerialDict_CheckFormat(serial_data, reg) ==
  IF serial_data.k # "dict" THEN Result(Raise("TypeError"), <<>>)
  ELSE IF "state" \notin DOMAIN serial_data.m THEN Result(Raise("KeyError"), <<>>)
  ELSE IF DictGet(serial_data.m, "__serializer_format__")
            # FormatDict("stardust.Serializable", SerializerFormatVersion)
    THEN Result(Raise("ValueError"), <<>>)
  ELSE Deserialize(serial_data.m["state"], reg)

\* from_serial_dict: Serializable.deserialize(serial_data['state'])
FromSerialDict(serial_data, reg) ==
  IF serial_data.k # "dict" THEN Result(Raise("TypeError"), <<>>)
  ELSE IF "state" \notin DOMAIN serial_data.m THEN Result(Raise("KeyError"), <<>>)
  ELSE Deserialize(serial_data.m["state"], reg)

(***************************************************************************)
(* Serializable._register_json_class                                       *)
(***************************************************************************)
\* prev and prev.cls is cls and prev.version == version and prev.to == to
\* and prev.from_ == from_ and prev.upgrade == upgrade
IdenticalEntry(reg, name, entry) ==
  /\ name \in DOMAIN reg
  /\ reg[name].cls = entry.cls
  /\ reg[name].version = entry.version
  /\ reg[name].to = entry.to
  /\ reg[name].from_ = entry.from_
  /\ reg[name].upgrade = entry.upgrade

\* _register_json_class that starts the registry over with the one entry.
RegisterJsonClass_Reset(reg, entry) ==
  [n \in {ClassName(entry.cls)} |-> entry]

\* _register_json_class that keeps whatever entry the name already has.
RegisterJsonClass_KeepFirst(reg, entry) ==
  LET name == ClassName(entry.cls) IN
  IF name \in DOMAIN reg THEN reg
  ELSE [n \in DOMAIN reg \cup {name} |-> IF n = name THEN entry ELSE reg[n]]

\* The registry after cls._register_json_class(version=, to=, from_=, upgrade=)
RegisterJsonClass(reg, entry) ==
  LET name == ClassName(entry.cls) IN
  IF IdenticalEntry(reg, name, entry) THEN reg
  ELSE [n \in DOMAIN reg \cup {name} |-> IF n = name THEN entry ELSE reg[n]]

\* prev = SERIALIZABLE_CLASS_REGISTRY.get(name): what the caller holds of
\* the registry afterwards, the entry under name if there is one.
GetEntry(reg, name) == [n \in DOMAIN reg \cap {name} |-> reg[n]]

\* A store that removes the name when it is there and adds it when not.
StoreEntry_Toggle(reg, entry) ==
  LET name == ClassName(entry.cls) IN
  IF name \in DOMAIN reg THEN [n \in DOMAIN reg \ {name} |-> reg[n]]
  ELSE [n \in DOMAIN reg \cup {name} |-> IF n = name THEN entry ELSE reg[n]]

\* SERIALIZABLE_CLASS_REGISTRY[cls.__name__] = ClassRegistryInfo(...)
StoreEntry(reg, entry) ==
  LET name == ClassName(entry.cls) IN
  [n \in DOMAIN reg \cup {name} |-> IF n = name THEN entry ELSE reg[n]]

\* The entry a class definition registers: to and from_ default to the
\* class's get_state_dict and from_state_dict.
DefaultEntry(c, version, upgrade) ==
  ClassRegistryInfo(c, "get_state_dict", c, version, upgrade)

(***************************************************************************)
(* Class definitions: Serializable.__init_subclass__ runs when the body of *)
(* a subclass has been executed.                                           *)
(***************************************************************************)
\* A class attribute as one class body holds it: set there or not, and the
\* value it was given.
Slot(isSet, val) == [set |-> isSet, val |-> val]

\* The base class, and the class attributes its body sets:
\*     __state_fields__ = ()
\*     __schema_version__ = 1
\*     __auto_register__ = True
\* It sets no __extend_state_fields__.
Root == "Serializable"
SchemaVersion == 1
RootAttrs ==
  [state_fields |-> Slot(TRUE, <<>>),
   auto_register |-> Slot(TRUE, TRUE),
   extend_state_fields |-> Slot(FALSE, TRUE)]

\* A class as its body leaves it: its base class and the three attributes
\* the body may set.  decl keeps the __state_fields__ the body wrote.
ClassBody(parent, sf, ext, auto) ==
  [parent |-> parent, state_fields |-> sf, extend_state_fields |-> ext,
   auto_register |-> auto, decl |-> sf]

\* The attribute lookup of getattr(c, attr) and hasattr(c, attr): the first
\* class of c.__mro__ whose body sets attr; object, the last one, sets none.
RECURSIVE Lookup(_, _, _)
Lookup(tbl, c, attr) ==
  IF c = Root THEN RootAttrs[attr]
  ELSE IF tbl[c][attr].set THEN tbl[c][attr]
  ELSE Lookup(tbl, tbl[c].parent, attr)

\* getattr(c, attr, default)
GetAttr(tbl, c, attr, default) ==
  LET a == Lookup(tbl, c, attr) IN IF a.set THEN a.val ELSE default

\* for base in cls.__mro__[1:]:
\*     if hasattr(base, "__state_fields__"):
\*         base_fields = getattr(base, "__state_fields__", ()); break
RECURSIVE BaseFields(_, _)
BaseFields(tbl, base) ==
  IF Lookup(tbl, base, "state_fields").set
    THEN GetAttr(tbl, base, "state_fields", <<>>)
  ELSE IF base = Root THEN <<>>
  ELSE BaseFields(tbl, tbl[base].parent)

\* Serializable.__init_subclass__ for the new class c with the given body:
\* the classes and the registry afterwards, and whether it raised (the class
\* statement then fails and binds no class).
InitSubclass(tbl, reg, c, body) ==
  LET tbl1 == [x \in DOMAIN tbl \cup {c} |-> IF x = c THEN body ELSE tbl[x]] IN
  IF ~GetAttr(tbl1, c, "auto_register", TRUE)
    THEN [classes |-> tbl1, registry |-> reg, raised |-> FALSE]
  ELSE IF ~Lookup(tbl1, c, "state_fields").set
    THEN [classes |-> tbl, registry |-> reg, raised |-> TRUE]
  ELSE LET merged == BaseFields(tbl1, body.parent)
                       \o GetAttr(tbl1, c, "state_fields", <<>>)
           tbl2 == IF GetAttr(tbl1, c, "extend_state_fields", TRUE)
                     THEN [tbl1 EXCEPT ![c].state_fields = Slot(TRUE, merged)]
                     ELSE tbl1 IN
       [classes |-> tbl2,
        registry |-> RegisterJsonClass(reg, DefaultEntry(c, SchemaVersion, "None")),
        raised |-> FALSE]

(***************************************************************************)
(* Packable: the manifest driven pack / unpack protocol.                   *)
(***************************************************************************)
\* An instance of a Packable subclass: its class and its attributes.
PkObj(c, f) == [k |-> "packable", cls |-> c, attrs |-> f]

\* What set_manifest of each class puts in the four manifests: Pt has one
\* plain field; Box has four plain fields, a nested Pt, a list of Pt and a
\* map of Pt; Outer has a nested Box.
PackClasses == {"Pt", "Box", "Outer"}
Manifest(c) ==
  CASE c = "Pt" -> <<"x">>
    [] c = "Box" -> <<"count", "name", "w", "h">>
    [] c = "Outer" -> <<>>
ObjManifest(c) ==
  CASE c = "Pt" -> <<>>
    [] c = "Box" -> <<"origin">>
    [] c = "Outer" -> <<"box">>
\* The keys of list_manifest and dict_manifest, in insertion order.
ListManifest(c) == IF c = "Box" THEN <<"pts">> ELSE <<>>
DictManifest(c) == IF c = "Box" THEN <<"named">> ELSE <<>>

\* The instances the constructors build.
FreshPt == PkObj("Pt", "x" :> PyInt(0))
FreshBox ==
  PkObj("Box", "count" :> PyInt(0) @@ "name" :> PyStr("") @@ "w" :> PyInt(0)
               @@ "h" :> PyInt(0) @@ "origin" :> FreshPt
               @@ "pts" :> PyList(<<>>) @@ "named" :> PyDict(EmptyMap))
FreshOuter == PkObj("Outer", "box" :> FreshBox)

\* list_manifest[mi] and dict_manifest[mi]: the prototype of the field.
ListProto(c, mi) == FreshPt
DictProto(c, mi) == FreshPt

\* setattr(self, mi, v)
SetAttr(self, mi, v) ==
  PkObj(self.cls, [f \in DOMAIN self.attrs \cup {mi} |->
                     IF f = mi THEN v ELSE self.attrs[f]])

\* d[mi] = v on the mapping being built
PutKey(d, mi, v) ==
  PyDict([f \in DOMAIN d.m \cup {mi} |-> IF f = mi THEN v ELSE d.m[f]])

\* Whether the module imports copy: lines 1-10 import datetime, typing,
\* dataclasses, json, numpy, abc, colorama and pylogfile, and not copy.
CopyImported == FALSE

\* copy.deepcopy(proto): the name copy is looked up when the call runs.
DeepCopy(proto) == IF CopyImported THEN proto ELSE Raise("NameError")

RECURSIVE Pack(_), PackItems(_), PackPlain(_, _, _), PackObjs(_, _, _),
          PackLists(_, _, _), PackDicts(_, _, _)

\* x.pack() for whatever x is: only a Packable has the method.
PackValue(x) == IF x.k = "packable" THEN Pack(x) ELSE Raise("AttributeError")

\* [x.pack() for x in q]
PackItems(q) ==
  IF q = <<>> THEN PyList(<<>>)
  ELSE LET h == PackValue(Head(q)) IN
       IF IsRaise(h) THEN h
       ELSE LET r == PackItems(Tail(q)) IN
            IF IsRaise(r) THEN r ELSE PyList(<<h>> \o r.items)

\* for mi in self.manifest: d[mi] = getattr(self, mi)
PackPlain(self, fields, d) ==
  IF fields = <<>> THEN d
  ELSE LET mi == Head(fields) IN
       IF mi \notin DOMAIN self.attrs THEN Raise("AttributeError")
       ELSE PackPlain(self, Tail(fields), PutKey(d, mi, self.attrs[mi]))

\* The obj_manifest loop whose except clause swallows the failure and
\* leaves the item out.
PackObjs_Swallow(self, fields, d) ==
  IF fields = <<>> THEN d
  ELSE LET mi == Head(fields) IN
       IF mi \notin DOMAIN self.attrs THEN PackObjs(self, Tail(fields), d)
       ELSE LET r == PackValue(self.attrs[mi]) IN
            IF IsRaise(r) THEN PackObjs(self, Tail(fields), d)
            ELSE PackObjs(self, Tail(fields), PutKey(d, mi, r))

\* for mi in self.obj_manifest: d[mi] = getattr(self, mi).pack(); a failure
\* is caught and raised again (the raise statement passes Exception a
\* keyword it does not take, so what propagates is a TypeError).
PackObjs(self, fields, d) ==
  IF fields = <<>> THEN d
  ELSE LET mi == Head(fields) IN
       IF mi \notin DOMAIN self.attrs THEN Raise("TypeError")
       ELSE LET r == PackValue(self.attrs[mi]) IN
            IF IsRaise(r) THEN Raise("TypeError")
            ELSE PackObjs(self, Tail(fields), PutKey(d, mi, r))

\* for mi in self.list_manifest: d[mi] = [x.pack() for x in getattr(self, mi)]
PackLists(self, fields, d) ==
  IF fields = <<>> THEN d
  ELSE LET mi == Head(fields) IN
       IF mi \notin DOMAIN self.attrs THEN Raise("AttributeError")
       ELSE IF ~Iterable(self.attrs[mi]) THEN Raise("TypeError")
       ELSE LET r == PackItems(IterItems(self.attrs[mi])) IN
            IF IsRaise(r) THEN r
            ELSE PackLists(self, Tail(fields), PutKey(d, mi, r))

\* for mi in self.dict_manifest: d[mi] = {midk: mi_deref[midk].pack() ...}
PackDicts(self, fields, d) ==
  IF fields = <<>> THEN d
  ELSE LET mi == Head(fields) IN
       IF mi \notin DOMAIN self.attrs THEN Raise("AttributeError")
       ELSE IF self.attrs[mi].k # "dict" THEN Raise("AttributeError")
       ELSE LET ks == SetToSeq(DOMAIN self.attrs[mi].m)
                r == PackItems([j \in 1..Len(ks) |-> self.attrs[mi].m[ks[j]]]) IN
            IF IsRaise(r) THEN r
            ELSE PackDicts(self, Tail(fields),
                   PutKey(d, mi,
                     PyDict([key \in DOMAIN self.attrs[mi].m |->
                               r.items[CHOOSE j \in 1..Len(ks) : ks[j] = key]])))

\* Packable.pack: the mapping returned, or the exception raised.
Pack(self) ==
  LET d1 == PackPlain(self, Manifest(self.cls), PyDict(EmptyMap)) IN
  IF IsRaise(d1) THEN d1
  ELSE LET d2 == PackObjs(self, ObjManifest(self.cls), d1) IN
  IF IsRaise(d2) THEN d2
  ELSE LET d3 == PackLists(self, ListManifest(self.cls), d2) IN
  IF IsRaise(d3) THEN d3
  ELSE PackDicts(self, DictManifest(self.cls), d3)

\* An unpack's outcome: self after it, the errors logged (by which class,
\* in which manifest, at which item), and how it ended: "ok", "return" (an
\* early return after an error was logged) or "raise".
Outcome(o, l, st) == [obj |-> o, log |-> l, st |-> st]
LogError(self, what, mi) == [who |-> self.cls, what |-> what, item |-> mi]

\* data[mi] raises: data is no mapping, or has no key mi.
NoItem(data, mi) == data.k # "dict" \/ mi \notin DOMAIN data.m

RECURSIVE Unpack(_, _), UnpackPlain(_, _, _), UnpackObjs(_, _, _),
          UnpackLists(_, _, _), UnpackListItems(_, _, _, _),
          UnpackDicts(_, _, _), UnpackDictItems(_, _, _, _, _)

\* The plain-field loop that skips a field it cannot assign and goes on.
UnpackPlain_Continue(self, fields, data) ==
  IF fields = <<>> THEN Outcome(self, <<>>, "ok")
  ELSE LET mi == Head(fields) IN
       IF NoItem(data, mi)
         THEN LET r == UnpackPlain(self, Tail(fields), data) IN
              Outcome(r.obj, <<LogError(self, "manifest", mi)>> \o r.log, r.st)
         ELSE UnpackPlain(SetAttr(self, mi, data.m[mi]), Tail(fields), data)

\* for mi in self.manifest: try: setattr(self, mi, data[mi])
\*                          except Exception: self.log.error(...); return
UnpackPlain(self, fields, data) ==
  IF fields = <<>> THEN Outcome(self, <<>>, "ok")
  ELSE LET mi == Head(fields) IN
       IF NoItem(data, mi)
         THEN Outcome(self, <<LogError(self, "manifest", mi)>>, "return")
         ELSE UnpackPlain(SetAttr(self, mi, data.m[mi]), Tail(fields), data)

\* for mi in self.obj_manifest: try: getattr(self, mi).unpack(data[mi])
\*                              except Exception: self.log.error(...); return
\* The nested instance is updated in place; its own early return is not an
\* exception, and the loop goes on.
UnpackObjs(self, fields, data) ==
  IF fields = <<>> THEN Outcome(self, <<>>, "ok")
  ELSE LET mi == Head(fields) IN
       IF \/ mi \notin DOMAIN self.attrs
          \/ self.attrs[mi].k # "packable"
          \/ NoItem(data, mi)
         THEN Outcome(self, <<LogError(self, "obj_manifest", mi)>>, "return")
         ELSE LET n == Unpack(self.attrs[mi], data.m[mi])
                  self1 == SetAttr(self, mi, n.obj) IN
              IF n.st = "raise"
                THEN Outcome(self1, n.log \o <<LogError(self, "obj_manifest", mi)>>,
                             "return")
                ELSE LET r == UnpackObjs(self1, Tail(fields), data) IN
                     Outcome(r.obj, n.log \o r.log, r.st)

\* The body of `for list_item in data[mi]`: deep-copy the prototype, unpack
\* the item into the copy, append it; any exception is logged and unpack
\* returns.  The outcome's obj is the list built when the loop ends.
UnpackListItems(self, mi, items, temp_list) ==
  IF items = <<>> THEN Outcome(PyList(temp_list), <<>>, "ok")
  ELSE LET new_obj == DeepCopy(ListProto(self.cls, mi)) IN
       IF IsRaise(new_obj)
         THEN Outcome(PyList(temp_list), <<LogError(self, "list_manifest", mi)>>,
                      "return")
         ELSE LET n == Unpack(new_obj, Head(items)) IN
              IF n.st = "raise"
                THEN Outcome(PyList(temp_list),
                             n.log \o <<LogError(self, "list_manifest", mi)>>,
                             "return")
                ELSE LET r == UnpackListItems(self, mi, Tail(items),
                                              temp_list \o <<n.obj>>) IN
                     Outcome(r.obj, n.log \o r.log, r.st)

\* The list loop that, when an element fails, assigns the elements rebuilt
\* so far before it returns.
UnpackLists_Partial(self, fields, data) ==
  IF fields = <<>> THEN Outcome(self, <<>>, "ok")
  ELSE LET mi == Head(fields) IN
       IF NoItem(data, mi) \/ ~Iterable(data.m[mi])
         THEN Outcome(self, <<>>, "raise")
         ELSE LET l == UnpackListItems(self, mi, IterItems(data.m[mi]), <<>>) IN
              IF l.st # "ok" THEN Outcome(SetAttr(self, mi, l.obj), l.log, l.st)
              ELSE LET r == UnpackLists(SetAttr(self, mi, l.obj), Tail(fields), data) IN
                   Outcome(r.obj, l.log \o r.log, r.st)

\* for mi in self.list_manifest.keys(): data[mi] is read outside the try.
UnpackLists(self, fields, data) ==
  IF fields = <<>> THEN Outcome(self, <<>>, "ok")
  ELSE LET mi == Head(fields) IN
       IF NoItem(data, mi) \/ ~Iterable(data.m[mi])
         THEN Outcome(self, <<>>, "raise")
         ELSE LET l == UnpackListItems(self, mi, IterItems(data.m[mi]), <<>>) IN
              IF l.st # "ok" THEN Outcome(self, l.log, l.st)
              ELSE LET r == UnpackLists(SetAttr(self, mi, l.obj), Tail(fields), data) IN
                   Outcome(r.obj, l.log \o r.log, r.st)

\* The body of `for dmk in data[mi].keys()`.  The outcome's obj is the
\* mapping built when the loop ends.
UnpackDictItems(self, mi, keys, d, temp_dict) ==
  IF keys = <<>> THEN Outcome(temp_dict, <<>>, "ok")
  ELSE LET dmk == Head(keys)
           new_obj == DeepCopy(DictProto(self.cls, mi)) IN
       IF IsRaise(new_obj)
         THEN Outcome(temp_dict, <<LogError(self, "dict_manifest", mi)>>, "return")
         ELSE LET n == Unpack(new_obj, d[dmk]) IN
              IF n.st = "raise"
                THEN Outcome(temp_dict,
                             n.log \o <<LogError(self, "dict_manifest", mi)>>,
                             "return")
                ELSE LET r == UnpackDictItems(self, mi, Tail(keys), d,
                                              PutKey(temp_dict, dmk, n.obj)) IN
                     Outcome(r.obj, n.log \o r.log, r.st)

\* for mi in self.dict_manifest.keys(): data[mi].keys() is read outside
\* the try.
UnpackDicts(self, fields, data) ==
  IF fields = <<>> THEN Outcome(self, <<>>, "ok")
  ELSE LET mi == Head(fields) IN
       IF NoItem(data, mi) \/ data.m[mi].k # "dict"
         THEN Outcome(self, <<>>, "raise")
         ELSE LET l == UnpackDictItems(self, mi, SetToSeq(DOMAIN data.m[mi].m),
                                       data.m[mi].m, PyDict(EmptyMap)) IN
              IF l.st # "ok" THEN Outcome(self, l.log, l.st)
              ELSE LET r == UnpackDicts(SetAttr(self, mi, l.obj), Tail(fields), data) IN
                   Outcome(r.obj, l.log \o r.log, r.st)

\* Packable.unpack.  An instance that is no Packable has no unpack method.
Unpack(self, data) ==
  IF self.k # "packable" THEN Outcome(self, <<>>, "raise")
  ELSE LET p1 == UnpackPlain(self, Manifest(self.cls), data) IN
  IF p1.st # "ok" THEN p1
  ELSE LET p2 == UnpackObjs(p1.obj, ObjManifest(self.cls), data) IN
  IF p2.st # "ok" THEN Outcome(p2.obj, p1.log \o p2.log, p2.st)
  ELSE LET p3 == UnpackLists(p2.obj, ListManifest(self.cls), data) IN
  IF p3.st # "ok" THEN Outcome(p3.obj, p1.log \o p2.log \o p3.log, p3.st)
  ELSE LET p4 == UnpackDicts(p3.obj, DictManifest(self.cls), data) IN
  Outcome(p4.obj, p1.log \o p2.log \o p3.log \o p4.log, p4.st)

(***************************************************************************)
(* The values the operations are applied to.                               *)
(***************************************************************************)
NoValue == [k |-> "absent"]

Versions == 1..MaxVersion
Threads == 1..MaxThreads

Prims == {PyInt(1), PyStr("a"), PyNone}
Timestamps == {DateTime(1, FALSE, 0), DateTime(1, TRUE, 0), DateTime(2, TRUE, 1)}
Arrays == {NdArray(<<2>>, "int64", <<1, 2>>), NdArray(<<2, 1>>, "float64", <<1, 2>>)}
Atoms == Prims \cup Timestamps \cup Arrays \cup {NpScalar("int64", 1)}

\* Members of the containers drawn.
Elems == {PyInt(1), DateTime(2, TRUE, 1)}
SeqsOf(S) == UNION {[1..n -> S] : n \in 0..MaxLen}
SubsetsOf(S) == {T \in SUBSET S : Cardinality(T) <= MaxLen}
MapsOf(K, S) == UNION {[D -> S] : D \in SubsetsOf(K)}

Lists1 == {PyList(q) : q \in SeqsOf(Elems)}
Tuples1 == {PyTuple(q) : q \in SeqsOf(Elems)}
Sets1 == {PySet(T) : T \in SubsetsOf(Elems)}
Dicts1 == {PyDict(f) : f \in MapsOf({"x", "y"}, Elems)}

\* Containers nested in containers.
Inner == {PyList(<<PyInt(1)>>), PyTuple(<<PyInt(1)>>), PySet({PyStr("a")}),
          PyDict("x" :> PyInt(1)), NdArray(<<2>>, "int64", <<1, 2>>)}
Level2 == {PyList(<<c>>) : c \in Inner} \cup {PyTuple(<<c>>) : c \in Inner}
          \cup {PyDict("x" :> c) : c \in Inner}
          \cup {PySet({PyTuple(<<PyInt(1)>>)}),
                PyList(<<PyDict("x" :> PyList(<<PyTuple(<<PyStr("a")>>)>>))>>)}

\* Mappings of the caller that carry a "__type__" key of their own.
LookAlikes ==
  {PyDict("__type__" :> PyStr("__set__") @@ "data" :> PyList(<<PyInt(1)>>)),
   PyDict("__type__" :> PyStr("__set__")),
   PyDict("__type__" :> PyStr("A") @@ "x" :> PyInt(1)),
   PyDict("__type__" :> PyStr("a") @@ "x" :> PyInt(1)),
   PyList(<<PyDict("__type__" :> PyStr("__datetime__"))>>)}

\* Instances of the classes.
ObjsA == {PyObj("A", "a" :> x @@ "b" :> y) :
            x \in {PyInt(1), PyInt(2)}, y \in {PyStr("a"), PyList(<<PyInt(1)>>)}}
ObjsA2 == {PyObj("A2", "a" :> PyInt(1) @@ "b" :> PyStr("a") @@ "c" :> z) :
             z \in {PyInt(0), PyInt(1)}}
ObjsB == {PyObj("B", "x" :> x) :
            x \in {PyInt(1),
                   PyObj("A", "a" :> PyInt(1) @@ "b" :> PyStr("a")),
                   PyObj("A2", "a" :> PyInt(1) @@ "b" :> PyStr("a") @@ "c" :> PyInt(1))}}
Objects == ObjsA \cup ObjsA2 \cup ObjsB
ObjContainers ==
  {PyList(<<PyObj("A", "a" :> PyInt(1) @@ "b" :> PyStr("a"))>>),
   PyDict("x" :> PyObj("B", "x" :> PyInt(1)))}

\* Values that hold no instance of a class.
PlainValues == Atoms \cup Lists1 \cup Tuples1 \cup Sets1 \cup Dicts1 \cup Level2
               \cup LookAlikes
\* Values that are, or hold, instances of the classes.
ObjectValues == Objects \cup ObjContainers

\* Documents read from a file: registered-object envelopes written by some
\* other program or an older version of this one.
Tags == {PyStr("Ghost"), PyStr("A"), PyStr("__set__"), PyStr("__datetime__"),
         PyStr(""), PyNone, PyList(<<PyInt(1)>>)}
Payloads == {PyDict("x" :> PyInt(1)),
             PyDict("a" :> PyInt(1) @@ "b" :> PyStr("a")),
             PyDict("x" :> PyDict("__type__" :> PyStr("Ghost")
                                  @@ "cls_serializer_version" :> PyInt(1)
                                  @@ "state_data" :> PyDict("x" :> PyInt(1))))}
Envelopes ==
  {PyDict("__type__" :> t @@ "cls_serializer_version" :> PyInt(v)
          @@ "state_data" :> p) : t \in Tags, v \in Versions, p \in Payloads}
\* Nodes that carry the key "v".
LegacyNodes ==
  {PyDict("__type__" :> PyStr("A") @@ "v" :> PyInt(v)
          @@ "state_data" :> PyDict("a" :> PyInt(1) @@ "b" :> PyStr("a"))) :
     v \in Versions}
Documents == Envelopes \cup LegacyNodes
\* __datetime__ nodes written by another program: an offset kept in the
\* string of a node marked naive, and a node without the naive key.
TimestampNodes ==
  {PyDict("__type__" :> PyStr("__datetime__") @@ "data" :> IsoStr(1, x)
          @@ "naive" :> PyBool(b)) :
     x \in {"", "Z", "+01:00"}, b \in BOOLEAN}
  \cup {PyDict("__type__" :> PyStr("__datetime__") @@ "data" :> IsoStr(1, "+01:00"))}

\* Objects handed to to_serial_dict.
EnvelopeValues ==
  {PyObj("A", "a" :> PyInt(1) @@ "b" :> PyStr("a")),
   PyObj("B", "x" :> PyObj("A", "a" :> PyInt(1) @@ "b" :> PyStr("a"))),
   PyList(<<PyTuple(<<PyInt(1)>>), DateTime(2, TRUE, 1)>>),
   PyInt(1)}
\* The format entries of the documents read,
FormatEntries ==
  {FormatDict("stardust.Serializable", SerializerFormatVersion),
   FormatDict("stardust.Serializable", SerializerFormatVersion + 1),
   FormatDict("other", SerializerFormatVersion),
   PyNone}
\* and the documents: a format entry and a state, a state alone, a format
\* entry alone, and a list.
FileStates ==
  LegacyNodes
  \cup {PyDict("__type__" :> PyStr("B") @@ "cls_serializer_version" :> PyInt(1)
               @@ "state_data" :> PyDict("x" :> PyInt(1))),
        PyDict("__type__" :> PyStr("__set__") @@ "data" :> PyList(<<PyInt(1)>>)),
        PyList(<<PyInt(1)>>)}
FileDocuments ==
  {PyDict("__serializer_format__" :> f @@ "state" :> st) :
     f \in FormatEntries, st \in FileStates}
  \cup {PyDict("state" :> st) : st \in FileStates}
  \cup {PyDict("__serializer_format__" :> f) : f \in FormatEntries}
  \cup {PyList(<<>>)}

\* Packables: a slot that should hold a Pt holds one, or holds None.
GoodPt(n) == PkObj("Pt", "x" :> PyInt(n))
PtSlots == {GoodPt(1), PyNone}
BoxOf(origin, pts, named) ==
  PkObj("Box", "count" :> PyInt(3) @@ "name" :> PyStr("a") @@ "w" :> PyInt(1)
               @@ "h" :> PyInt(2) @@ "origin" :> origin
               @@ "pts" :> PyList(pts) @@ "named" :> PyDict(named))
Boxes == {BoxOf(o, l, m) :
            o \in PtSlots,
            l \in SeqsOf({GoodPt(1)}) \cup {<<PyNone>>, <<GoodPt(1), PyNone>>},
            m \in MapsOf({"x", "y"}, {GoodPt(2)}) \cup {"y" :> PyNone}}
GoodBox == BoxOf(GoodPt(1), <<GoodPt(1)>>, "x" :> GoodPt(2))
EmptyBox == BoxOf(GoodPt(1), <<>>, EmptyMap)
Outers == {PkObj("Outer", "box" :> b) :
             b \in {PyNone, GoodBox, EmptyBox,
                    BoxOf(GoodPt(1), <<GoodPt(1), PyNone>>, EmptyMap),
                    BoxOf(GoodPt(1), <<>>, "y" :> PyNone)}}
PackObjects == Boxes \cup Outers \cup {GoodPt(1)}

\* A Box that has been in use.
UsedBox ==
  PkObj("Box", "count" :> PyInt(7) @@ "name" :> PyStr("u") @@ "w" :> PyInt(7)
               @@ "h" :> PyInt(7) @@ "origin" :> GoodPt(7)
               @@ "pts" :> PyList(<<GoodPt(7)>>) @@ "named" :> PyDict("z" :> GoodPt(7)))
Targets == {FreshBox, UsedBox, FreshOuter}

\* Data handed to unpack by a peer: packed Boxes with any of their keys
\* left out, a Box whose nested data lacks its key, fields of the wrong
\* shape, an Outer whose Box lacks keys, and no mapping at all.
Restrict(d, K) == PyDict([key \in K |-> d.m[key]])
BoxData == {Pack(GoodBox), Pack(EmptyBox)}
BoxKeys == DOMAIN Pack(GoodBox).m
DataInputs ==
  {Restrict(d, BoxKeys \ K) :
     d \in BoxData, K \in {M \in SUBSET BoxKeys : Cardinality(M) <= MaxMissing}}
  \cup {PutKey(Pack(EmptyBox), "origin", PyDict(EmptyMap)),
        PutKey(Pack(EmptyBox), "pts", PyNone),
        PutKey(Pack(EmptyBox), "named", PyList(<<>>)),
        PyDict("box" :> Restrict(Pack(EmptyBox), DOMAIN Pack(EmptyBox).m \ {"pts"})),
        PyDict("box" :> Restrict(Pack(EmptyBox), DOMAIN Pack(EmptyBox).m \ {"w"})),
        PyNone}

(***************************************************************************)
(* The state machine: registrations, encodes, loads and decodes.           *)
(***************************************************************************)
NoOp == [op |-> "none"]

Init ==
  /\ registry = EmptyMap
  /\ src = NoValue
  /\ node = NoValue
  /\ regChanged = FALSE
  /\ last = NoOp
  /\ psrc = NoValue
  /\ wire = NoValue
  /\ before = NoValue
  /\ after = NoValue
  /\ plast = NoOp
  /\ classes = EmptyMap
  /\ dlast = NoOp
  /\ pc = [t \in Threads |-> "idle"]
  /\ prev = [t \in Threads |-> EmptyMap]
  /\ obs = <<>>
  /\ doc = NoValue

\* A class definition (or an explicit call) registers class c.
Register(c, version, upgrade) ==
  LET entry == DefaultEntry(c, version, upgrade) IN
  /\ registry' = RegisterJsonClass(registry, entry)
  /\ regChanged' = (regChanged \/ registry' # registry)
  /\ last' = [op |-> "register", wrote |-> registry' # registry]
  /\ UNCHANGED <<src, node>>
  /\ UNCHANGED <<pvars, xvars>>

\* node = Serializable.serialize(v)
SerializeStep(v) ==
  /\ src' = v
  /\ node' = Serialize(v, registry)
  /\ regChanged' = FALSE
  /\ last' = [op |-> "serialize"]
  /\ UNCHANGED registry
  /\ UNCHANGED <<pvars, xvars>>

\* A document's state is read from a file (restore_state's json.load).
Load(n) ==
  /\ src' = NoValue
  /\ node' = n
  /\ regChanged' = FALSE
  /\ last' = [op |-> "load"]
  /\ UNCHANGED registry
  /\ UNCHANGED <<pvars, xvars>>

\* Serializable.deserialize(node)
DeserializeStep ==
  /\ node # NoValue
  /\ ~IsRaise(node)
  /\ LET r == Deserialize(node, registry) IN
     last' = [op |-> "deserialize", val |-> r.val, log |-> r.log]
  /\ UNCHANGED <<registry, src, node, regChanged>>
  /\ UNCHANGED <<pvars, xvars>>

\* Registrations, encodes of instances, loads of documents, decodes.
Next ==
  \/ \E c \in Classes, v \in Versions : \E u \in UpgradeChoices(c) : Register(c, v, u)
  \/ \E v \in ObjectValues : SerializeStep(v)
  \/ \E n \in Documents : Load(n)
  \/ DeserializeStep

Spec == Init /\ [][Next]_vars

\* Class definitions at their first version, encodes of plain values, loads
\* of timestamp nodes, decodes.
NextValues ==
  \/ \E c \in Classes : Register(c, 1, "None")
  \/ \E v \in PlainValues : SerializeStep(v)
  \/ \E n \in TimestampNodes : Load(n)
  \/ DeserializeStep

SpecValues == Init /\ [][NextValues]_vars

(***************************************************************************)
(* What the claims are stated with.                                        *)
(***************************************************************************)
\* The last operation was a decode of node under the current registry.
Decoded == last.op = "deserialize"

\* node is a mapping whose "__type__" names a registered class.
RegisteredTop ==
  /\ node.k = "dict"
  /\ IsRegisteredTag(DictGet(node.m, "__type__"), registry)
  /\ "state_data" \in DOMAIN node.m

\* The events of the decode of node itself, after those of its state_data.
TopLog ==
  LET inner == Deserialize(node.m["state_data"], registry) IN
  SubSeq(last.log, Len(inner.log) + 1, Len(last.log))

IsUpgrade(e) == e.e = "upgrade"
IsWarn(e) == e.e = "warn"
WarnCount(log) == Len(SelectSeq(log, IsWarn))

\* C1: for every registered type and every instance x of it,
\* deserialize(serialize(x)), with the registry unchanged in between, returns
\* an instance of the same type whose get_state_dict() equals x's.
C1_RoundTripStateDict ==
  (/\ Decoded
   /\ src.k = "obj"
   /\ ~regChanged
   /\ TypeName(src) \in DOMAIN registry
   /\ registry[TypeName(src)].cls = src.cls)
  => /\ ~IsRaise(last.val)
     /\ last.val.k = "obj"
     /\ last.val.cls = src.cls
     /\ GetStateDict(last.val) = GetStateDict(src)

\* C2: decoding a registered-object node calls the entry's upgrade function
\* if and only if the version the node declares (cls_serializer_version)
\* differs from the entry's current version, and then with from_version the
\* declared version and to_version the entry's version.
C2_UpgradeIffDeclaredDiffers ==
  (/\ Decoded
   /\ RegisteredTop
   /\ "cls_serializer_version" \in DOMAIN node.m
   /\ registry[node.m["__type__"].s].upgrade # "None"
   /\ ~IsRaise(last.val))
  => LET declared == node.m["cls_serializer_version"].i
         current == registry[node.m["__type__"].s].version
         ups == SelectSeq(TopLog, IsUpgrade) IN
     /\ (ups # <<>>) <=> (declared # current)
     /\ \A j \in 1..Len(ups) : ups[j].fv = declared /\ ups[j].tv = current

\* The case of C3: an instance was encoded while its entry had version 1, the
\* entry now has version 2 and the upgrade function add_c, and the node has
\* been decoded.
C3_Case ==
  /\ Decoded
  /\ src.k = "obj"
  /\ RegisteredTop
  /\ node.m["cls_serializer_version"] = PyInt(1)
  /\ registry[node.m["__type__"].s].version = 2
  /\ registry[node.m["__type__"].s].upgrade = "add_c"

\* C3: a version 1 node decoded under a version 2 entry whose upgrade
\* function adds a default field: the upgrade function is called exactly
\* once, with the already decoded payload and before the deserialize
\* function, and the object returned has the new field at its default.
C3_UpgradeOnce ==
  C3_Case =>
    LET inner == Deserialize(node.m["state_data"], registry)
        name == node.m["__type__"].s IN
    /\ Len(SelectSeq(TopLog, IsUpgrade)) = 1
    /\ TopLog[1] = Event("upgrade", name, 1, 2, inner.val)
    /\ TopLog[2].e = "from_"
    /\ ~IsRaise(last.val)
    /\ last.val.k = "obj"
    /\ "c" \in DOMAIN last.val.attrs
    /\ last.val.attrs["c"] = DefaultC

C3_Witness == C3_Case /\ src.cls = "A" /\ last.val.cls = "A2"

\* C4: registering an entry identical to the one stored under the name
\* leaves the registry as it is; registering any other entry stores it under
\* the name, so the name maps to the entry registered last; no other name's
\* entry changes.
C4_Registration ==
  [][\A c \in Classes, v \in Versions : \A u \in UpgradeChoices(c) :
       Register(c, v, u) =>
         LET entry == DefaultEntry(c, v, u)
             name == ClassName(c) IN
         /\ DOMAIN registry' = DOMAIN registry \cup {name}
         /\ registry'[name] = entry
         /\ \A n \in DOMAIN registry \ {name} : registry'[n] = registry[n]
         /\ (name \in DOMAIN registry /\ registry[name] = entry)
              => registry' = registry]_vars

\* A registration that found the identical entry, beside another class's.
C4_Witness ==
  /\ last = [op |-> "register", wrote |-> FALSE]
  /\ DOMAIN registry = {"A", "B"}

\* node has the three envelope keys and its "__type__" is no registry key.
UnknownEnvelope ==
  /\ node.k = "dict"
  /\ {"__type__", "cls_serializer_version", "state_data"} \subseteq DOMAIN node.m
  /\ ~(node.m["__type__"].k = "str" /\ node.m["__type__"].s \in DOMAIN registry)

\* The warnings the decodes of the values of mapping d emit, summed.
RECURSIVE WarnsOfValues(_, _)
WarnsOfValues(d, keys) ==
  IF keys = {} THEN 0
  ELSE LET key == CHOOSE x \in keys : TRUE IN
       WarnCount(Deserialize(d[key], registry).log) + WarnsOfValues(d, keys \ {key})

\* Decoding node returned a plain mapping with the keys of node, each value
\* decoded, and warned exactly once for node itself.
DegradedToMapping ==
  /\ ~IsRaise(last.val)
  /\ last.val.k = "dict"
  /\ DOMAIN last.val.m = DOMAIN node.m
  /\ \A key \in DOMAIN node.m :
       last.val.m[key] = Deserialize(node.m[key], registry).val
  /\ WarnCount(last.log) = 1 + WarnsOfValues(node.m, DOMAIN node.m)
  /\ last.log[1] = Event("warn", "", 0, 0, node.m["__type__"])

\* C5 as stated: decoding an envelope whose "__type__" is absent from the
\* registry never raises, warns exactly once for the node and returns a
\* plain mapping with the three keys, for every such "__type__" value.
C5_AnyUnknownType == (Decoded /\ UnknownEnvelope) => DegradedToMapping

\* "__type__" is hashable and none of the reserved tags.
OrdinaryTag(t) == Hashable(t) /\ ~(t.k = "str" /\ t.s \in ReservedTags)

\* None of the values of mapping d raises when decoded.
ValuesDecode(d) ==
  \A key \in DOMAIN d : ~IsRaise(Deserialize(d[key], registry).val)

\* C5, amended: the same for every hashable "__type__" value absent from the
\* registry other than the reserved tags __set__, __datetime__, __ndarray__,
\* when the node's values decode without raising.
C5_UnknownTypeDegrades ==
  (/\ Decoded
   /\ UnknownEnvelope
   /\ OrdinaryTag(node.m["__type__"])
   /\ ValuesDecode(node.m))
  => DegradedToMapping

\* The unregistered Ghost node holding a Ghost node, and the name A while
\* no class of that name is registered.
C5_Witness ==
  /\ Decoded
  /\ UnknownEnvelope
  /\ node.m["__type__"] \in {PyStr("Ghost"), PyStr("A")}
  /\ WarnCount(last.log) = 2

(***************************************************************************)
(* Value equality, for the round trip of plain values.                     *)
(***************************************************************************)
\* a == b in Python: aware datetimes are equal when they denote the same
\* instant, a boxed scalar equals the number it holds, containers compare
\* member by member; a tuple never equals a list.
RECURSIVE EqValue(_, _)
EqValue(a, b) ==
  CASE a.k = "npscalar" /\ b.k = "int" -> a.item = b.i
    [] a.k = "int" /\ b.k = "npscalar" -> a.i = b.item
    [] a.k # b.k -> FALSE
    [] a.k = "datetime" ->
         IF a.aware /\ b.aware THEN a.wall - a.off = b.wall - b.off
         ELSE ~a.aware /\ ~b.aware /\ a.wall = b.wall
    [] a.k \in {"list", "tuple"} ->
         /\ Len(a.items) = Len(b.items)
         /\ \A j \in 1..Len(a.items) : EqValue(a.items[j], b.items[j])
    [] a.k = "set" ->
         /\ \A x \in a.elems : \E y \in b.elems : EqValue(x, y)
         /\ \A y \in b.elems : \E x \in a.elems : EqValue(x, y)
    [] a.k = "dict" ->
         /\ DOMAIN a.m = DOMAIN b.m
         /\ \A key \in DOMAIN a.m : EqValue(a.m[key], b.m[key])
    [] a.k = "ndarray" -> a.shape = b.shape /\ a.flat = b.flat /\ a.dtype = b.dtype
    [] OTHER -> a = b

\* v with every tuple replaced by the list of its items.
RECURSIVE Listify(_)
Listify(v) ==
  CASE v.k \in {"list", "tuple"} ->
         PyList([j \in 1..Len(v.items) |-> Listify(v.items[j])])
    [] v.k = "set" -> PySet({Listify(x) : x \in v.elems})
    [] v.k = "dict" -> PyDict([key \in DOMAIN v.m |-> Listify(v.m[key])])
    [] OTHER -> v

\* A mapping of the caller that decode reads as a tagged form.
TagCollision(d, reg) ==
  /\ "__type__" \in DOMAIN d
  /\ \/ d["__type__"].k = "str" /\ d["__type__"].s \in ReservedTags
     \/ IsRegisteredTag(d["__type__"], reg)
     \/ TagLookupRaises(d["__type__"])

\* v holds no mapping decode reads as a tagged form and no set with a tuple
\* as a member.
RECURSIVE Faithful(_, _)
Faithful(v, reg) ==
  CASE v.k \in {"list", "tuple"} ->
         \A j \in 1..Len(v.items) : Faithful(v.items[j], reg)
    [] v.k = "set" -> \A x \in v.elems : x.k # "tuple" /\ Faithful(x, reg)
    [] v.k = "dict" ->
         ~TagCollision(v.m, reg) /\ \A key \in DOMAIN v.m : Faithful(v.m[key], reg)
    [] OTHER -> TRUE

\* A plain value was encoded and the node decoded.
RoundTripped == Decoded /\ src # NoValue /\ src.k # "obj"

\* C6 as stated: deserialize(serialize(v)) is value-equal to v for every
\* value built from primitives, lists, tuples, sets, mappings, timestamps
\* and arrays.
C6_RoundTripEqual ==
  RoundTripped => ~IsRaise(last.val) /\ EqValue(last.val, src)

\* C6, amended: deserialize(serialize(v)) is value-equal to v with every
\* tuple replaced by a list of the same items, for every such v that holds
\* no set with a tuple member and no mapping whose "__type__" entry is a
\* reserved tag, a registered name or unhashable.
C6_RoundTripUpToTuples ==
  (RoundTripped /\ Faithful(src, registry))
  => ~IsRaise(last.val) /\ EqValue(last.val, Listify(src))

\* A nested value with a tuple, a timestamp in a set, and an array.
C6_Witness ==
  /\ RoundTripped
  /\ src \in {PyList(<<PyDict("x" :> PyList(<<PyTuple(<<PyStr("a")>>)>>))>>),
              PySet({PyInt(1), DateTime(2, TRUE, 1)}),
              PyDict("x" :> NdArray(<<2>>, "int64", <<1, 2>>))}
  /\ EqValue(last.val, Listify(src))

(***************************************************************************)
(* The state machine of the Packable protocol: packs, data received from a *)
(* peer, unpacks.                                                          *)
(***************************************************************************)
\* wire = p.pack()
PackStep(p) ==
  LET r == Pack(p) IN
  /\ psrc' = p
  /\ wire' = IF IsRaise(r) THEN NoValue ELSE r
  /\ plast' = [op |-> "pack", raised |-> IsRaise(r)]
  /\ before' = NoValue
  /\ after' = NoValue
  /\ UNCHANGED <<cvars, xvars>>

\* Data arrives from a peer.
Receive(d) ==
  /\ psrc' = NoValue
  /\ wire' = d
  /\ plast' = [op |-> "receive"]
  /\ before' = NoValue
  /\ after' = NoValue
  /\ UNCHANGED <<cvars, xvars>>

\* t.unpack(wire)
UnpackStep(t) ==
  /\ wire # NoValue
  /\ LET r == Unpack(t, wire) IN
     /\ before' = t
     /\ after' = r.obj
     /\ plast' = [op |-> "unpack", st |-> r.st, log |-> r.log]
  /\ UNCHANGED <<psrc, wire>>
  /\ UNCHANGED <<cvars, xvars>>

NextPack ==
  \/ \E p \in PackObjects : PackStep(p)
  \/ \E d \in DataInputs : Receive(d)
  \/ \E t \in Targets : UnpackStep(t)

SpecPack == Init /\ [][NextPack]_vars

\* The last operation was before.unpack(wire).
Unpacked == plast.op = "unpack"

\* Every field named in one of the four manifests of class c.
ManifestFields(c) ==
  Range(Manifest(c)) \cup Range(ObjManifest(c)) \cup Range(ListManifest(c))
    \cup Range(DictManifest(c))

\* C7: for a Packable with plain fields, a nested object, a list of one or
\* more objects and a map of one or more objects, unpack(p.pack()) on a
\* fresh instance of the class leaves it with p's value in every manifest
\* field.
C7_ManifestRoundTrip ==
  (/\ Unpacked
   /\ psrc # NoValue
   /\ psrc.cls = "Box"
   /\ Len(psrc.attrs["pts"].items) >= 1
   /\ DOMAIN psrc.attrs["named"].m # {}
   /\ before = FreshBox)
  => \A f \in ManifestFields("Box") : after.attrs[f] = psrc.attrs[f]

\* The positions of the plain manifest of the target whose item is missing
\* from the data.
MissingPlain ==
  {j \in 1..Len(Manifest(before.cls)) : NoItem(wire, Manifest(before.cls)[j])}
FirstMissing == CHOOSE j \in MissingPlain : \A i \in MissingPlain : j <= i

\* C8: when the k-th plain field cannot be assigned, the plain fields before
\* position k hold their values from the data, every other field is as it
\* was before the call, one error is logged and unpack returns without
\* raising.
C8_PartialUnpack ==
  (Unpacked /\ MissingPlain # {}) =>
    LET M == Manifest(before.cls)
        done == {M[j] : j \in 1..(FirstMissing - 1)} IN
    /\ plast.st = "return"
    /\ plast.log = <<LogError(before, "manifest", M[FirstMissing])>>
    /\ DOMAIN after.attrs = DOMAIN before.attrs
    /\ \A f \in done : after.attrs[f] = wire.m[f]
    /\ \A f \in DOMAIN before.attrs \ done : after.attrs[f] = before.attrs[f]

\* The third of four plain fields is missing from the data, the fourth is
\* there.
C8_Witness ==
  /\ Unpacked
  /\ before = UsedBox
  /\ MissingPlain = {3}
  /\ after.attrs["count"] = PyInt(3)
  /\ after.attrs["h"] = PyInt(7)
  /\ wire.m["h"] = PyInt(2)

\* C9: unpack never propagates an exception, whatever the data.
C9_UnpackNeverRaises == Unpacked => plast.st # "raise"

\* Some nested object, list element or map value of p, at any depth, is no
\* Packable.
RECURSIVE HasCorrupt(_)
HasCorrupt(p) ==
  \/ \E f \in Range(ObjManifest(p.cls)) :
       p.attrs[f].k # "packable" \/ HasCorrupt(p.attrs[f])
  \/ \E f \in Range(ListManifest(p.cls)) :
       \E x \in Range(p.attrs[f].items) : x.k # "packable" \/ HasCorrupt(x)
  \/ \E f \in Range(DictManifest(p.cls)) :
       \E key \in DOMAIN p.attrs[f].m :
         p.attrs[f].m[key].k # "packable" \/ HasCorrupt(p.attrs[f].m[key])

\* C10: when pack() of a nested object, a list element or a map value fails,
\* at any depth, the enclosing pack() raises and hands no mapping to its
\* caller; otherwise it returns a mapping with the manifest fields as keys.
C10_PackFailureFatal ==
  plast.op = "pack" =>
    IF HasCorrupt(psrc)
      THEN plast.raised /\ wire = NoValue
      ELSE ~plast.raised /\ wire.k = "dict"
           /\ DOMAIN wire.m = ManifestFields(psrc.cls)

\* An Outer whose Box holds a list whose second element cannot be packed.
C10_Witness ==
  /\ plast.op = "pack"
  /\ plast.raised
  /\ psrc = PkObj("Outer", "box" :> BoxOf(GoodPt(1), <<GoodPt(1), PyNone>>, EmptyMap))

(***************************************************************************)
(* The state machine of class definitions.                                 *)
(***************************************************************************)
\* The subclasses that get defined, the fields each one's body may declare,
\* and the base classes it may name.
DefClasses == {"K1", "K2", "K3"}
OwnFields(c) ==
  CASE c = "K1" -> <<"g">>
    [] c = "K2" -> <<"p">>
    [] c = "K3" -> <<"c", "d">>
Parents(c) ==
  CASE c = "K1" -> {Root}
    [] c = "K2" -> {Root, "K1"}
    [] c = "K3" -> {"K1", "K2"}
\* __state_fields__ in a class body: absent, the empty tuple, or the fields.
FieldDecls(c) == {Slot(FALSE, <<>>), Slot(TRUE, <<>>), Slot(TRUE, OwnFields(c))}
\* __extend_state_fields__ and __auto_register__ in a class body.
FlagDecls == {Slot(FALSE, TRUE), Slot(TRUE, TRUE), Slot(TRUE, FALSE)}

\* class c(parent): <body>
DefineClass(c, parent, sf, ext, auto) ==
  /\ c \notin DOMAIN classes
  /\ parent \in DOMAIN classes \cup {Root}
  /\ LET r == InitSubclass(classes, registry, c, ClassBody(parent, sf, ext, auto)) IN
     /\ classes' = r.classes
     /\ registry' = r.registry
     /\ dlast' = [op |-> "define", cls |-> c, parent |-> parent, decl |-> sf,
                  raised |-> r.raised]
  /\ UNCHANGED <<src, node, regChanged, last>>
  /\ UNCHANGED <<pvars, rvars, doc>>

NextClasses ==
  \E c \in DefClasses : \E parent \in Parents(c) :
    \E sf \in FieldDecls(c), ext \in FlagDecls, auto \in FlagDecls :
      DefineClass(c, parent, sf, ext, auto)

SpecClasses == Init /\ [][NextClasses]_vars

\* The last operation defined a class.
Defined == dlast.op = "define"

\* Class c, being defined, auto-registers.
Participates(c) ==
  IF c \in DOMAIN classes THEN GetAttr(classes, c, "auto_register", TRUE)
  ELSE dlast.raised

\* Neither the body of c nor that of any of its ancestors below Serializable
\* declares __state_fields__.
RECURSIVE NoneDeclares(_)
NoneDeclares(c) ==
  c = Root \/ (~classes[c].decl.set /\ NoneDeclares(classes[c].parent))

\* C11: defining a participating class that declares no __state_fields__
\* and has no ancestor class that declares one fails with an error, and the
\* registry gets no entry for it.
C11_UndeclaredFieldsRejected ==
  (/\ Defined
   /\ Participates(dlast.cls)
   /\ ~dlast.decl.set
   /\ NoneDeclares(dlast.parent))
  => dlast.raised /\ dlast.cls \notin DOMAIN registry

\* The fields the body of c declared itself.
DeclaredFields(c) == IF classes[c].decl.set THEN classes[c].decl.val ELSE <<>>
\* c.__state_fields__ as an instance of c reads it.
EffectiveFields(c) == GetAttr(classes, c, "state_fields", <<>>)

\* C12: the __state_fields__ of a class just registered are its nearest
\* ancestor's __state_fields__ followed by the fields its own body declared
\* when __extend_state_fields__ is true (the default), and exactly the
\* fields its own body declared when it is false.
C12_FieldAggregation ==
  (/\ Defined
   /\ ~dlast.raised
   /\ Participates(dlast.cls))
  => LET c == dlast.cls IN
     EffectiveFields(c) =
       IF GetAttr(classes, c, "extend_state_fields", TRUE)
         THEN EffectiveFields(classes[c].parent) \o DeclaredFields(c)
         ELSE DeclaredFields(c)

(***************************************************************************)
(* Timestamps.                                                             *)
(***************************************************************************)
\* node is a __datetime__ node whose data is an ISO string.
TimestampNode ==
  /\ node.k = "dict"
  /\ DictGet(node.m, "__type__") = PyStr("__datetime__")
  /\ "data" \in DOMAIN node.m
  /\ node.m["data"].k = "isostr"

\* C13: the node encoded for a timestamp has naive = true exactly when the
\* timestamp has no timezone; an aware timestamp is written as its UTC
\* reading with the suffix Z; decoding a node with naive = true gives a
\* timestamp without timezone showing the reading of the string, and
\* decoding the node of an aware timestamp gives an aware timestamp of the
\* same instant.
C13_TimestampTagging ==
  /\ src.k = "datetime" =>
       /\ TimestampNode
       /\ node.m["naive"] = PyBool(~src.aware)
       /\ node.m["data"] =
            IF src.aware THEN IsoStr(src.wall - src.off, "Z")
            ELSE IsoStr(src.wall, "")
  /\ (Decoded /\ TimestampNode /\ Truthy(DictGet(node.m, "naive"))) =>
       /\ last.val.k = "datetime"
       /\ ~last.val.aware
       /\ last.val.wall = node.m["data"].wall
  /\ (Decoded /\ src.k = "datetime" /\ src.aware) =>
       /\ last.val.k = "datetime"
       /\ last.val.aware
       /\ last.val.wall - last.val.off = src.wall - src.off

\* A timestamp one hour east of UTC came back as the same instant in UTC,
\* and a node marked naive whose string carries an offset came back without
\* timezone.
C13_Witness ==
  /\ Decoded
  /\ \/ src = DateTime(2, TRUE, 1) /\ last.val = DateTime(1, TRUE, 0)
     \/ /\ src = NoValue
        /\ TimestampNode
        /\ node.m["data"] = IsoStr(1, "+01:00")
        /\ last.val = DateTime(1, FALSE, 0)

(***************************************************************************)
(* The registry's writers.                                                 *)
(***************************************************************************)
\* C14: an encode, a load or a decode leaves the registry as it was,
\* whatever type names the data carries, and no operation removes a name
\* from the registry.
C14_RegistryWrittenByRegistration ==
  [][/\ DOMAIN registry \subseteq DOMAIN registry'
     /\ last'.op \in {"serialize", "load", "deserialize"} => registry' = registry]_vars

\* Two names are registered and a node naming an unregistered type, or a
\* class of the same name as the registered one, has been decoded.
C14_Witness ==
  /\ Decoded
  /\ DOMAIN registry = {"A", "B"}
  /\ node.k = "dict"
  /\ \/ DictGet(node.m, "__type__") = PyStr("Ghost")
     \/ src.k = "obj" /\ src.cls = "A2" /\ registry["A"].cls = "A"

(***************************************************************************)
(* The state machine of concurrent registration: threads that each run     *)
(* cls._register_json_class() for the same class, and a thread that looks  *)
(* the name up.  A dict read and a dict store are one step each.           *)
(***************************************************************************)
\* The entry every thread registers, and its name.
RaceEntry == DefaultEntry("A", 1, "None")
RaceName == ClassName(RaceEntry.cls)

\* Nothing of the race has happened yet.
RaceNotStarted == obs = <<>> /\ \A t \in Threads : pc[t] = "idle"

\* Before the threads start, other class definitions may have run: class B,
\* and another class named A.
Seed(c) ==
  /\ RaceNotStarted
  /\ Register(c, 1, "None")

\* Thread t: prev = SERIALIZABLE_CLASS_REGISTRY.get(cls.__name__)
ReadPrev(t) ==
  /\ pc[t] = "idle"
  /\ prev' = [prev EXCEPT ![t] = GetEntry(registry, RaceName)]
  /\ pc' = [pc EXCEPT ![t] = "read"]
  /\ UNCHANGED <<cvars, pvars, dvars, obs, doc>>

\* Thread t: if prev and prev.cls is cls and ...: return cls
\*           SERIALIZABLE_CLASS_REGISTRY[cls.__name__] = ClassRegistryInfo(...)
CompareAndStore(t) ==
  /\ pc[t] = "read"
  /\ registry' = IF IdenticalEntry(prev[t], RaceName, RaceEntry) THEN registry
                 ELSE StoreEntry(registry, RaceEntry)
  /\ pc' = [pc EXCEPT ![t] = "done"]
  /\ prev' = [prev EXCEPT ![t] = EmptyMap]
  /\ UNCHANGED <<src, node, regChanged, last>>
  /\ UNCHANGED <<pvars, dvars, obs, doc>>

\* The reading thread: SERIALIZABLE_CLASS_REGISTRY.get(name), as serialize
\* and deserialize look a name up.
LookupEntry ==
  /\ Len(obs) < MaxObs
  /\ obs' = Append(obs, GetEntry(registry, RaceName))
  /\ UNCHANGED <<cvars, pvars, dvars, pc, prev, doc>>

NextRace ==
  \/ \E c \in {"A2", "B"} : Seed(c)
  \/ \E t \in Threads : ReadPrev(t)
  \/ \E t \in Threads : CompareAndStore(t)
  \/ LookupEntry

SpecRace == Init /\ [][NextRace]_vars

\* A lookup that returned the entry the threads register.
SawEntry(o) == RaceName \in DOMAIN o /\ o[RaceName] = RaceEntry

\* C15: whatever the interleaving of the registering threads and the
\* lookups, once every thread has returned the registry holds the entry
\* under the name, and after a lookup has returned the entry every later
\* lookup returns it too.
C15_IdenticalRegistrationRaces ==
  /\ (\A t \in Threads : pc[t] = "done") =>
       RaceName \in DOMAIN registry /\ registry[RaceName] = RaceEntry
  /\ \A i \in 1..Len(obs) : \A j \in i..Len(obs) :
       SawEntry(obs[i]) => SawEntry(obs[j])

\* Every thread has returned; the name held another class's entry before
\* the threads started, and the lookups returned that entry first and the
\* registered entry last.
C15_Witness ==
  /\ \A t \in Threads : pc[t] = "done"
  /\ Len(obs) >= 2
  /\ RaceName \in DOMAIN obs[1]
  /\ ~SawEntry(obs[1])
  /\ SawEntry(obs[Len(obs)])
  /\ last = [op |-> "register", wrote |-> TRUE]

(***************************************************************************)
(* The state machine of the file envelope.                                 *)
(***************************************************************************)
\* doc = to_serial_dict(v)
ToSerialDictStep(v) ==
  /\ src' = v
  /\ doc' = ToSerialDict(v, registry)
  /\ node' = NoValue
  /\ regChanged' = FALSE
  /\ last' = [op |-> "to_serial_dict"]
  /\ UNCHANGED registry
  /\ UNCHANGED <<pvars, dvars, rvars>>

\* restore_state: json_data = json.load(f)
ReadDocument(d) ==
  /\ src' = NoValue
  /\ doc' = d
  /\ node' = NoValue
  /\ regChanged' = FALSE
  /\ last' = [op |-> "read"]
  /\ UNCHANGED registry
  /\ UNCHANGED <<pvars, dvars, rvars>>

\* from_serial_dict(doc)
FromSerialDictStep ==
  /\ doc # NoValue
  /\ ~IsRaise(doc)
  /\ LET r == FromSerialDict(doc, registry) IN
     last' = [op |-> "from_serial_dict", val |-> r.val, log |-> r.log]
  /\ UNCHANGED <<registry, src, node, regChanged, doc>>
  /\ UNCHANGED <<pvars, dvars, rvars>>

NextFile ==
  \/ \E c \in Classes : Register(c, 1, "None")
  \/ \E v \in EnvelopeValues : ToSerialDictStep(v)
  \/ \E d \in FileDocuments : ReadDocument(d)
  \/ FromSerialDictStep

SpecFile == Init /\ [][NextFile]_vars

\* doc with its format entry replaced by f.
WithFormat(d, f) ==
  PyDict([key \in DOMAIN d.m \cup {"__serializer_format__"} |->
            IF key = "__serializer_format__" THEN f ELSE d.m[key]])

\* The last operation was from_serial_dict(doc), and doc has a state.
Restored ==
  /\ last.op = "from_serial_dict"
  /\ doc.k = "dict"
  /\ "state" \in DOMAIN doc.m

\* C16: to_serial_dict(obj) is a mapping with exactly the keys
\* __serializer_format__ (a name and a version) and state (the encoding of
\* obj); from_serial_dict returns the decoding of the state, the same for
\* every content of the format entry; from_serial_dict(to_serial_dict(obj))
\* is deserialize(serialize(obj)).
C16_FileEnvelope ==
  /\ (last.op = "to_serial_dict" /\ ~IsRaise(doc)) =>
       /\ doc.k = "dict"
       /\ DOMAIN doc.m = {"__serializer_format__", "state"}
       /\ doc.m["__serializer_format__"].k = "dict"
       /\ DOMAIN doc.m["__serializer_format__"].m = {"name", "version"}
       /\ doc.m["state"] = Serialize(src, registry)
  /\ Restored =>
       /\ last.val = Deserialize(doc.m["state"], registry).val
       /\ \A f \in FormatEntries :
            FromSerialDict(WithFormat(doc, f), registry)
              = Result(last.val, last.log)
  /\ (Restored /\ src # NoValue /\ ~regChanged) =>
       last.val = Deserialize(Serialize(src, registry), registry).val

\* A document of another format name was loaded into an object, and an
\* object holding an object went through to_serial_dict and back.
C16_Witness ==
  /\ Restored
  /\ ~IsRaise(last.val)
  /\ last.val.k = "obj"
  /\ \/ DictGet(doc.m, "__serializer_format__")
          = FormatDict("other", SerializerFormatVersion)
     \/ src.k = "obj" /\ src.cls = "B" /\ last.val.attrs["x"].k = "obj"

(***************************************************************************)
(* The order of the calls a decode makes.                                  *)
(***************************************************************************)
\* v holds, at some depth, a registered-object node: a mapping whose
\* "__type__" names a registered class and that has a state_data entry.
RECURSIVE HoldsNode(_, _)
HoldsNode(v, reg) ==
  CASE v.k \in {"list", "tuple"} ->
         \E j \in 1..Len(v.items) : HoldsNode(v.items[j], reg)
    [] v.k = "set" -> \E x \in v.elems : HoldsNode(x, reg)
    [] v.k = "dict" ->
         \/ /\ IsRegisteredTag(DictGet(v.m, "__type__"), reg)
            /\ "state_data" \in DOMAIN v.m
         \/ \E key \in DOMAIN v.m : HoldsNode(v.m[key], reg)
    [] v.k = "obj" -> \E f \in DOMAIN v.attrs : HoldsNode(v.attrs[f], reg)
    [] OTHER -> FALSE

IsCall(e) == e.e \in {"upgrade", "from_", "post"}
IsFrom(e) == e.e = "from_"

\* A registered-object node holding registered-object nodes has been decoded.
NestedDecoded ==
  /\ Decoded
  /\ RegisteredTop
  /\ HoldsNode(node.m["state_data"], registry)

\* C17: when a registered-object node holds registered-object nodes in its
\* state_data, every call made for an inner node (upgrade, deserialize
\* function, hook) comes before the first call made for the enclosing node,
\* and no upgrade or deserialize function is handed a payload that still
\* holds a registered-object node.
C17_InnerOutDecoding ==
  NestedDecoded =>
    LET inner == Deserialize(node.m["state_data"], registry)
        n == Len(inner.log) IN
    /\ n >= 1
    /\ Len(last.log) >= n
    /\ SubSeq(last.log, 1, n) = inner.log
    /\ \E j \in 1..n : last.log[j].e = "from_"
    /\ \A j \in (n + 1)..Len(last.log) : IsCall(last.log[j])
    /\ Len(SelectSeq(TopLog, IsUpgrade)) <= 1
    /\ Len(SelectSeq(TopLog, IsFrom)) <= 1
    /\ \A j \in 1..Len(last.log) :
         last.log[j].e \in {"upgrade", "from_"}
           => ~HoldsNode(last.log[j].arg, registry)

\* A B holding an A: the A was upgraded and rebuilt, then the B was rebuilt
\* with the A object in its payload and its hook ran.
C17_Witness ==
  /\ NestedDecoded
  /\ ~IsRaise(last.val)
  /\ last.val.cls = "B"
  /\ last.val.attrs["x"].k = "obj"
  /\ Len(last.log) = 4
  /\ last.log[1].e = "upgrade"
  /\ last.log[3].arg = PyDict("x" :> last.val.attrs["x"])

(***************************************************************************)
(* Reconstruction of an instance.                                          *)
(***************************************************************************)
IsPost(e) == e.e = "post"
\* The place in TopLog of the call of the node's deserialize function.
FromCall == CHOOSE j \in 1..Len(TopLog) : TopLog[j].e = "from_"

\* C18: the instance from_state_dict returns has exactly the entries of the
\* state dict as attributes, none that __init__ would have set; if the class
\* defines __post_deserialize__ the hook is called exactly once, after the
\* deserialize function was entered and when every entry has been assigned;
\* if not, no hook is called.
C18_ReconstructionPath ==
  (Decoded /\ RegisteredTop /\ ~IsRaise(last.val)) =>
    LET c == registry[node.m["__type__"].s].from_
        payload == TopLog[FromCall].arg
        posts == SelectSeq(TopLog, IsPost) IN
    /\ last.val = PyObj(c, payload.m)
    /\ IF HasPostHook(c)
         THEN /\ Len(posts) = 1
              /\ TopLog[Len(TopLog)] = Event("post", ClassName(c), 0, 0, payload)
              /\ FromCall < Len(TopLog)
         ELSE posts = <<>>

\* A class with a hook, rebuilt from a state dict that lacks a field
\* __init__ would set.
C18_Witness ==
  /\ Decoded
  /\ RegisteredTop
  /\ ~IsRaise(last.val)
  /\ last.val.cls = "B"
  /\ DOMAIN last.val.attrs = {"x"}
  /\ "cache" \in DOMAIN InitAttrs("B")
  /\ Len(SelectSeq(TopLog, IsPost)) = 1

(***************************************************************************)
(* A version mismatch and no upgrade function.                             *)
(***************************************************************************)
\* The version the registered-object node node carries, under either key.
NodeVersions ==
  {node.m[key].i : key \in {"cls_serializer_version", "v"} \cap DOMAIN node.m}

\* node is a registered-object node whose entry has no upgrade function and
\* whose version, under the key the encoder writes or the key the decoder
\* reads, differs from the entry's.
MismatchNoUpgrade ==
  /\ Decoded
  /\ RegisteredTop
  /\ registry[node.m["__type__"].s].upgrade = "None"
  /\ \E v \in NodeVersions : v # registry[node.m["__type__"].s].version

\* C19: decoding a registered-object node whose version differs from the
\* entry's, when the entry has no upgrade function, warns of nothing and
\* calls no upgrade function; it calls the entry's deserialize function on
\* the payload as decoded and returns what that returns, which is an
\* instance whenever the decoded payload is a mapping.
C19_MismatchWithoutUpgrade ==
  MismatchNoUpgrade =>
    LET info == registry[node.m["__type__"].s]
        inner == Deserialize(node.m["state_data"], registry) IN
    ~IsRaise(inner.val) =>
      /\ TopLog # <<>>
      /\ TopLog[1] = Event("from_", ClassName(info.cls), 0, 0, inner.val)
      /\ \A j \in 1..Len(TopLog) : ~IsWarn(TopLog[j]) /\ ~IsUpgrade(TopLog[j])
      /\ last.val = FromStateDict(info.from_, inner.val).val
      /\ inner.val.k = "dict" => (~IsRaise(last.val) /\ last.val.k = "obj")

\* An instance encoded at version 1 and decoded under a version 2 entry
\* without upgrade function.
C19_Witness ==
  /\ MismatchNoUpgrade
  /\ src.k = "obj"
  /\ node.m["cls_serializer_version"] = PyInt(1)
  /\ registry[node.m["__type__"].s].version = 2
  /\ ~IsRaise(last.val)
  /\ last.val.k = "obj"

(***************************************************************************)
(* A failure inside a nested instance's unpack.                            *)
(***************************************************************************)
\* The positions of the target's obj_manifest whose nested instance is
\* handed its data and whose own unpack fails: it logs an error and
\* returns early, or raises.
NestedFailures ==
  {j \in 1..Len(ObjManifest(before.cls)) :
     LET f == ObjManifest(before.cls)[j] IN
     /\ ~NoItem(wire, f)
     /\ before.attrs[f].k = "packable"
     /\ Unpack(before.attrs[f], wire.m[f]).st # "ok"}
FirstNestedFailure == CHOOSE j \in NestedFailures : \A i \in NestedFailures : j <= i

\* C20: when the unpack of a nested-object field fails inside the nested
\* instance's own unpack, the enclosing unpack logs an error for the field
\* and ends there: no nested-object field after the failing one, no list
\* field and no map field of the enclosing instance is modified.
C20_NestedFailureAbortsParent ==
  (Unpacked /\ MissingPlain = {} /\ NestedFailures # {}) =>
    LET O == ObjManifest(before.cls)
        later == {O[j] : j \in (FirstNestedFailure + 1)..Len(O)}
                   \cup Range(ListManifest(before.cls))
                   \cup Range(DictManifest(before.cls)) IN
    /\ plast.st = "return"
    /\ \E j \in 1..Len(plast.log) :
         plast.log[j] = LogError(before, "obj_manifest", O[FirstNestedFailure])
    /\ \A f \in later : after.attrs[f] = before.attrs[f]

(***************************************************************************)
(* The entry an encode uses.                                               *)
(***************************************************************************)
\* The last operation encoded the instance src and wrapped it as a
\* registered-object node.
EncodedAsNode ==
  /\ last.op = "serialize"
  /\ src.k = "obj"
  /\ node.k = "dict"
  /\ ValidSerializedObject(node.m)

\* C21: an instance is wrapped as a registered-object node, by an entry's
\* serialize function, only when the entry's owning class is the instance's
\* own class; an instance whose own class has no entry is never wrapped
\* under the entry of another class, also when two classes share a name.
C21_EncodeUsesOwnType ==
  EncodedAsNode =>
    /\ TypeName(src) \in DOMAIN registry
    /\ registry[TypeName(src)].cls = src.cls

(***************************************************************************)
(* List and map fields of an unpack.                                       *)
(***************************************************************************)
\* Rebuilding some element of the list field f from the data fails.
ListFieldFails(f) ==
  /\ ~NoItem(wire, f)
  /\ Iterable(wire.m[f])
  /\ UnpackListItems(before, f, IterItems(wire.m[f]), <<>>).st # "ok"

\* Rebuilding the value of some key of the map field f from the data fails.
DictFieldFails(f) ==
  /\ ~NoItem(wire, f)
  /\ wire.m[f].k = "dict"
  /\ UnpackDictItems(before, f, SetToSeq(DOMAIN wire.m[f].m), wire.m[f].m,
                     PyDict(EmptyMap)).st # "ok"

\* C22: when rebuilding an element of a list field, or the value of a key of
\* a map field, fails, the field keeps the value it had before the unpack
\* call; a field that was assigned holds one rebuilt object for every
\* element, or key, of its source collection.
C22_FieldsAllOrNothing ==
  Unpacked =>
    /\ \A f \in Range(ListManifest(before.cls)) :
         /\ ListFieldFails(f) => after.attrs[f] = before.attrs[f]
         /\ after.attrs[f] # before.attrs[f] =>
              /\ after.attrs[f].k = "list"
              /\ Len(after.attrs[f].items) = Len(IterItems(wire.m[f]))
    /\ \A f \in Range(DictManifest(before.cls)) :
         /\ DictFieldFails(f) => after.attrs[f] = before.attrs[f]
         /\ after.attrs[f] # before.attrs[f] =>
              /\ after.attrs[f].k = "dict"
              /\ DOMAIN after.attrs[f].m = DOMAIN wire.m[f].m

\* A Box in use is handed a complete packed Box with one element in its
\* list: the plain fields are taken over, the element fails, the list stays.
C22_Witness ==
  /\ Unpacked
  /\ before = UsedBox
  /\ MissingPlain = {}
  /\ ListFieldFails("pts")
  /\ plast.st = "return"
  /\ plast.log = <<LogError(before, "list_manifest", "pts")>>
  /\ after.attrs["count"] = PyInt(3)
  /\ after.attrs["pts"] = PyList(<<GoodPt(7)>>)

(***************************************************************************)
(* Field lists without repetition.                                         *)
(***************************************************************************)
\* No name occurs twice in the sequence q.
NoRepeat(q) == \A i, j \in 1..Len(q) : q[i] = q[j] => i = j

\* The names the bodies of the ancestors of c declare.
RECURSIVE AncestorDeclared(_)
AncestorDeclared(c) ==
  IF classes[c].parent = Root THEN {}
  ELSE Range(DeclaredFields(classes[c].parent))
         \cup AncestorDeclared(classes[c].parent)

\* The body of every class declares each name once and no name one of its
\* ancestors' bodies declares.
DisjointDeclarations ==
  \A c \in DOMAIN classes :
    /\ NoRepeat(DeclaredFields(c))
    /\ Range(DeclaredFields(c)) \cap AncestorDeclared(c) = {}

\* C23: the __state_fields__ of every registered class hold each name at
\* most once, whatever its chain of base classes, also when its body
\* declares no fields and it only inherits, provided no body declares a
\* name an ancestor's body declares.
C23_FieldListsAreSets ==
  DisjointDeclarations =>
    \A c \in DOMAIN classes :
      c \in DOMAIN registry => NoRepeat(EffectiveFields(c))

====
